---- MODULE Spec2Model ----
(***************************************************************************)
(* Model of src/main.py: a Streamlit script that is re-executed from top   *)
(* to bottom on every user interaction.  One execution of the script is    *)
(* one action (Run); the only state that survives an execution is the      *)
(* content of the three st.cache_data caches.  The values of the script's  *)
(* module-level names after the last execution are kept as variables so    *)
(* that properties of the rendered page can be stated.                     *)
(*                                                                         *)
(* Abstractions: prices and rates are integers, fitted values are exact    *)
(* fractions (the code uses IEEE doubles); a Timestamp is an integer       *)
(* number of ticks with TicksPerDay ticks in a calendar day; a date cell   *)
(* of a CSV file is a piece of text <<day, tick of day>> that              *)
(* pd.to_datetime parses into a Timestamp.                                 *)
(***************************************************************************)
EXTENDS Integers, Sequences, FiniteSets

\* ------------------------------------------------------------------ bounds
MaxLen == 3        \* longest price series drawn for the projection runs
TicksPerDay == 2   \* resolution of a Timestamp: ticks in one calendar day

\* ------------------------------------------------------- program constants
FallbackRate == 75     \* return 75
future_days == 180     \* future_days = 180
OneMonthIndex == 30    \* future_prices[30]
ThreeMonthIndex == 90  \* future_prices[90]

\* the part of the products dictionary that is modelled
Products == {"Wheat", "Rice"}
Sources == {"CSV", "Yahoo Finance"}

\* ------------------------------------------------------------- rationals
RECURSIVE GCD(_, _)
GCD(a, b) == IF b = 0 THEN a ELSE GCD(b, a % b)

Abs(a) == IF a < 0 THEN -a ELSE a

\* the rational n/d (d # 0) in lowest terms with a positive denominator
Rat(n, d) ==
    LET g == GCD(Abs(n), Abs(d))
        s == IF d < 0 THEN -1 ELSE 1
    IN  [num |-> s * (n \div g), den |-> s * (d \div g)]

RatInt(n) == [num |-> n, den |-> 1]

\* r * k + q over the least common denominator of r and q (a fraction that
\* need not be in lowest terms)
RatMulAdd(r, k, q) ==
    LET l == (r.den * q.den) \div GCD(r.den, q.den)
    IN  [num |-> r.num * k * (l \div r.den) + q.num * (l \div q.den), den |-> l]

\* two fractions are the same number
RatEq(r, q) ==
    IF r.den = q.den THEN r.num = q.num ELSE r.num * q.den = q.num * r.den

\* ------------------------------------------------------------ sequences
RECURSIVE SumSeq(_)
SumSeq(s) == IF s = <<>> THEN 0 ELSE Head(s) + SumSeq(Tail(s))

RECURSIVE MinSeq(_)
MinSeq(s) ==
    IF Len(s) = 1 THEN s[1]
    ELSE LET m == MinSeq(Tail(s)) IN IF s[1] <= m THEN s[1] ELSE m

RECURSIVE MaxSeq(_)
MaxSeq(s) ==
    IF Len(s) = 1 THEN s[1]
    ELSE LET m == MaxSeq(Tail(s)) IN IF s[1] >= m THEN s[1] ELSE m

\* len(s), read off the index set
Length(s) == Cardinality(DOMAIN s)

IndexOf(s, x) == CHOOSE i \in 1..Len(s) : s[i] = x

\* ----------------------------------------------------------- DataFrames
\* A DataFrame is held column-wise: the column labels, the dtype of the
\* first column ("object" for text, "datetime64" for Timestamps) and one
\* vector per column.
NoFrame == [columns |-> <<>>, dtype |-> "none", cols |-> <<>>]

NRows(f) == IF Len(f.cols) = 0 THEN 0 ELSE Len(f.cols[1])

\* DataFrame.empty
Empty(f) == Len(f.columns) = 0 \/ NRows(f) = 0

\* df[name]
Col(f, name) == f.cols[IndexOf(f.columns, name)]

\* df[name] = vec
SetCol(f, name, vec) ==
    IF \E i \in 1..Len(f.columns) : f.columns[i] = name
    THEN [f EXCEPT !.cols[IndexOf(f.columns, name)] = vec]
    ELSE [f EXCEPT !.columns = Append(@, name), !.cols = Append(@, vec)]

\* df.columns = names succeeds only when the number of labels matches
CanSetColumns(f, names) == Len(names) = Len(f.columns)

SetColumns(f, names) == [f EXCEPT !.columns = names]

\* pd.to_datetime on a column: text is parsed, Timestamps are kept
ToDatetime(dtype, vec) ==
    IF dtype = "object"
    THEN [i \in 1..Len(vec) |-> vec[i][1] * TicksPerDay + vec[i][2]]
    ELSE vec

\* Timedelta.days
DtDays(delta) == delta \div TicksPerDay

\* timedelta(days = n)
Timedelta(n) == n * TicksPerDay

\* ------------------------------------------------------ product catalog
products ==
    [p \in Products |->
        IF p = "Wheat" THEN [ticker |-> "ZW=F", csv |-> "wheat.csv"]
                       ELSE [ticker |-> "ZR=F", csv |-> "rice.csv"]]

CsvNames == {products[p].csv : p \in Products}
Tickers == {products[p].ticker : p \in Products}

\* ----------------------------------------------------------- environment
\* what the exchange-rate request can do
Rates == {80}
FailureKinds == {"network_error", "malformed_response", "missing_rates", "missing_INR"}
RateOutcomes ==
    {[kind |-> "ok", rate |-> r] : r \in Rates}
        \cup {[kind |-> k, rate |-> 0] : k \in FailureKinds}

VARIABLES
    files,              \* static resources: file name -> <<>> (absent) or <<frame>>
    market,             \* market-data service: ticker -> frame of closing prices
    rateCache,          \* st.cache_data of get_usd_to_inr_rate: <<>> or <<entry>>
    csvCache,           \* st.cache_data of load_csv_data: file name -> <<>> or <<frame>>
    yahooCache,         \* st.cache_data of fetch_yahoo_finance_data: ticker -> <<>> or <<frame>>
    status,             \* how the last execution ended
    selected_product,   \* sidebar selection of the last execution
    data_source,        \* sidebar selection of the last execution
    rateFetch,          \* what the rate request of the last execution did ("cached": none made)
    usd_to_inr_rate,
    messages,           \* banners shown by the last execution, in order
    loaded,             \* the frame as the loader returned it, before any in-place change
    cacheHit,           \* the loader call of the last execution was served from its cache
    df,
    model,              \* the fitted LinearRegression: <<>> or <<[coef_, intercept_]>>
    last_day,           \* df['Days'].max(), -1 while unbound
    chart,              \* st.altair_chart was called
    metrics,            \* the four summary metrics: <<>> or <<record>>
    predictions         \* the three point predictions: <<>> or <<record>>

envVars == <<files, market>>
cacheVars == <<rateCache, csvCache, yahooCache>>
pageVars ==
    <<status, selected_product, data_source, rateFetch, usd_to_inr_rate, messages,
      loaded, cacheHit, df, model, last_day, chart, metrics, predictions>>
vars == <<envVars, cacheVars, pageVars>>

\* ---------------------------------------------------------- Rate Provider
\* the body of the try block: the request, the decoding, the two lookups
TryFetchRate(outcome) ==
    [raised |-> outcome.kind # "ok", value |-> outcome.rate]

\* a handler that catches only the failure of the request itself
get_usd_to_inr_rate_OnlyNetwork(outcome) ==
    LET t == TryFetchRate(outcome)
    IN  IF ~t.raised THEN [value |-> t.value, error |-> FALSE, raised |-> FALSE]
        ELSE IF outcome.kind = "network_error"
             THEN [value |-> FallbackRate, error |-> TRUE, raised |-> FALSE]
             ELSE [value |-> 0, error |-> FALSE, raised |-> TRUE]

\* get_usd_to_inr_rate: a bare except turns every failure into the fallback
get_usd_to_inr_rate(outcome) ==
    LET t == TryFetchRate(outcome)
    IN  IF t.raised
        THEN [value |-> FallbackRate, error |-> TRUE, raised |-> FALSE]
        ELSE [value |-> t.value, error |-> FALSE, raised |-> FALSE]

\* the cached call: a hit replays the stored value and the stored banner
CachedRate(outcome) ==
    IF rateCache # <<>>
    THEN [value |-> rateCache[1].value, error |-> rateCache[1].error,
          raised |-> FALSE, fetch |-> "cached"]
    ELSE LET r == get_usd_to_inr_rate(outcome)
         IN  [value |-> r.value, error |-> r.error, raised |-> r.raised,
              fetch |-> outcome.kind]

\* ------------------------------------------------------ Price Series Loader
\* pd.read_csv(filename)
load_csv_data(filename) ==
    IF files[filename] = <<>>
    THEN [raised |-> TRUE, frame |-> NoFrame]
    ELSE [raised |-> FALSE, frame |-> files[filename][1]]

\* yf.download(...)['Close'].reset_index()
fetch_yahoo_finance_data(ticker) ==
    [raised |-> FALSE, frame |-> market[ticker]]

\* a cache that hands out the stored object itself
CacheDataReturn_SameObject(key, frame) ==
    [frame |-> frame, alias |-> <<key>>]

\* what st.cache_data hands to the caller: a fresh copy of the stored value,
\* so no later in-place change of it reaches the cache (alias: no cache key)
CacheDataReturn(key, frame) ==
    [frame |-> frame, alias |-> <<>>]

\* a call of a st.cache_data function: the value handed to the caller, what
\* the cache holds afterwards (store), and whether the cache served the call
CachedLoad(cache, key, computed) ==
    IF cache[key] # <<>>
    THEN LET r == CacheDataReturn(key, cache[key][1])
         IN  [raised |-> FALSE, frame |-> r.frame, alias |-> r.alias,
              store |-> cache[key], hit |-> TRUE]
    ELSE IF computed.raised
         THEN [raised |-> TRUE, frame |-> NoFrame, alias |-> <<>>,
               store |-> <<>>, hit |-> FALSE]
         ELSE LET r == CacheDataReturn(key, computed.frame)
              IN  [raised |-> FALSE, frame |-> r.frame, alias |-> r.alias,
                   store |-> <<computed.frame>>, hit |-> FALSE]

\* ---------------------------------------------------------- Trend Projector
\* a fit through the origin (fit_intercept = False)
LinearRegressionFit_NoIntercept(xs, ys) ==
    LET n   == Len(xs)
        Sxx == SumSeq([i \in 1..n |-> xs[i] * xs[i]])
        Sxy == SumSeq([i \in 1..n |-> xs[i] * ys[i]])
    IN  IF Sxx = 0
        THEN [coef_ |-> RatInt(0), intercept_ |-> RatInt(0)]
        ELSE [coef_ |-> Rat(Sxy, Sxx), intercept_ |-> RatInt(0)]

\* LinearRegression().fit(X, y) on one feature: centred least squares; when
\* every x is the same the minimum-norm solution has coefficient 0
LinearRegressionFit(xs, ys) ==
    LET n   == Len(xs)
        Sx  == SumSeq(xs)
        Sy  == SumSeq(ys)
        Sxx == SumSeq([i \in 1..n |-> xs[i] * xs[i]])
        Sxy == SumSeq([i \in 1..n |-> xs[i] * ys[i]])
        D   == n * Sxx - Sx * Sx
        N   == n * Sxy - Sx * Sy
    IN  IF D = 0
        THEN [coef_ |-> RatInt(0), intercept_ |-> Rat(Sy, n)]
        ELSE [coef_ |-> Rat(N, D), intercept_ |-> Rat(Sy * D - N * Sx, n * D)]

\* model.predict on one row
Predict(m, x) == RatMulAdd(m.coef_, x, m.intercept_)

\* pd.date_range(start = start, periods = periods): one entry per day
DateRange(start, periods) ==
    [k \in 1..periods |-> start + Timedelta(k - 1)]

\* range(last_day + 1, last_day + future_days + 1) with last_day one too small
FutureDaysArray_FromLen(f, last) ==
    [k \in 1..future_days |-> (NRows(f) - 1) + k]

\* np.array(range(last_day + 1, last_day + future_days + 1))
FutureDaysArray(f, last) ==
    [k \in 1..future_days |-> last + k]

\* a conversion that leaves the prices in the source currency
ConvertPrices_Unscaled(prices, rate) == prices

\* df['Price'] * usd_to_inr_rate
ConvertPrices(prices, rate) ==
    [i \in 1..Len(prices) |-> prices[i] * rate]

\* a horizon that starts on the last historical date
FutureDates_FromLast(dates) ==
    DateRange(MaxSeq(dates), future_days)

\* pd.date_range(start = df['Date'].max() + timedelta(days = 1), periods = future_days)
FutureDates(dates) ==
    DateRange(MaxSeq(dates) + Timedelta(1), future_days)

\* model.predict(future_days_array)
FuturePrices(m, fdays) ==
    [k \in 1..Length(fdays) |-> Predict(m, fdays[k])]

\* all_data: the two pd.concat calls and the Type column
AllData(f, fdates, fprices) ==
    LET dates  == Col(f, "Date")
        prices == Col(f, "Price")
        n      == NRows(f)
    IN  [i \in 1..(n + Length(fdates)) |->
            IF i <= n
            THEN [Date |-> dates[i], Price |-> RatInt(prices[i]), Type |-> "Historical"]
            ELSE [Date |-> fdates[i - n], Price |-> fprices[i - n], Type |-> "Predicted"]]

\* the else branch of the emptiness check up to last_day: the three column
\* assignments and the fit
Prepare(f, rate) ==
    LET dates  == ToDatetime(f.dtype, Col(f, "Date"))
        f1     == [SetCol(f, "Date", dates) EXCEPT !.dtype = "datetime64"]
        prices == ConvertPrices(Col(f1, "Price"), rate)
        f2     == SetCol(f1, "Price", prices)
        first  == MinSeq(dates)
        days   == [i \in 1..Len(dates) |-> DtDays(dates[i] - first)]
    IN  [df |-> SetCol(f2, "Days", days),
         model |-> LinearRegressionFit(days, prices),
         last_day |-> MaxSeq(days)]

\* Python indexing of a list: seq[i], negative i counting from the end
PyIndex(seq, i) ==
    IF i >= 0 THEN seq[i + 1] ELSE seq[Length(seq) + i + 1]

\* a guard that only asks whether df exists
StatsGuard_NoEmptyCheck(f) == f # NoFrame

\* 'df' in locals() and not df.empty
StatsGuard(f) == f # NoFrame /\ ~Empty(f)

\* the four summary metrics
SummaryMetrics(f) ==
    LET prices == Col(f, "Price")
    IN  [current |-> PyIndex(prices, -1),
         average |-> Rat(SumSeq(prices), Len(prices)),
         lowest  |-> MinSeq(prices),
         highest |-> MaxSeq(prices)]

\* the three point predictions
PointPredictions(fp) ==
    [one_month   |-> PyIndex(fp, OneMonthIndex),
     three_month |-> PyIndex(fp, ThreeMonthIndex),
     six_month   |-> PyIndex(fp, -1)]

\* ------------------------------------------------------------- the script
\* the page before anything is shown
BlankPage(product, source) ==
    [status |-> "completed", selected_product |-> product, data_source |-> source,
     rateFetch |-> "cached", usd_to_inr_rate |-> 0, messages |-> <<>>,
     loaded |-> NoFrame, cacheHit |-> FALSE, df |-> NoFrame, alias |-> <<>>,
     model |-> <<>>, last_day |-> -1, chart |-> FALSE, metrics |-> <<>>, predictions |-> <<>>]

\* usd_to_inr_rate = get_usd_to_inr_rate() and the sidebar line that shows it
RateStage(page, outcome) ==
    LET r == CachedRate(outcome)
    IN  IF r.raised
        THEN [page EXCEPT !.status = "crashed", !.rateFetch = r.fetch]
        ELSE [page EXCEPT !.rateFetch = r.fetch,
                          !.usd_to_inr_rate = r.value,
                          !.messages = IF r.error THEN Append(@, "rate_error") ELSE @]

\* an except branch that shows the banner and falls through
CsvNotFound_NoStop(page) ==
    [page EXCEPT !.messages = Append(@, "csv_not_found"), !.status = "crashed"]

\* except FileNotFoundError: st.error(...); st.stop()
CsvNotFound(page) ==
    [page EXCEPT !.messages = Append(@, "csv_not_found"), !.status = "stopped"]

\* df.columns = ['Date', 'Price'] and the success banner
Loaded(page, l, banner) ==
    IF ~CanSetColumns(l.frame, <<"Date", "Price">>)
    THEN [page EXCEPT !.status = "crashed", !.loaded = l.frame, !.df = l.frame,
                      !.cacheHit = l.hit, !.alias = l.alias]
    ELSE [page EXCEPT !.loaded = l.frame,
                      !.cacheHit = l.hit,
                      !.df = SetColumns(l.frame, <<"Date", "Price">>),
                      !.alias = l.alias,
                      !.messages = Append(@, banner)]

\* the result of the cached loader call of this execution
LoaderCall(product, source) ==
    IF source = "CSV"
    THEN CachedLoad(csvCache, products[product].csv,
                    load_csv_data(products[product].csv))
    ELSE CachedLoad(yahooCache, products[product].ticker,
                    fetch_yahoo_finance_data(products[product].ticker))

\* if data_source == "CSV": ... else: ...
LoadStage(page, product, source) ==
    LET l == LoaderCall(product, source)
    IN  IF source = "CSV"
        THEN IF l.raised THEN CsvNotFound(page) ELSE Loaded(page, l, "csv_success")
        ELSE Loaded(page, l, "yahoo_success")

\* if df.empty: st.error(...) else: fit, predict, combine, draw
ChartStage(page) ==
    IF Empty(page.df)
    THEN [page EXCEPT !.messages = Append(@, "no_data")]
    ELSE LET pr == Prepare(page.df, page.usd_to_inr_rate)
         IN  [page EXCEPT !.df = pr.df,
                          !.model = <<pr.model>>,
                          !.last_day = pr.last_day,
                          !.chart = TRUE]

\* with col2: the statistics panel; indexing an empty column or reading a
\* name that was never bound raises
StatsStage(page) ==
    IF ~StatsGuard(page.df) THEN page
    ELSE IF Empty(page.df) \/ page.model = <<>>
         THEN [page EXCEPT !.status = "crashed"]
         ELSE [page EXCEPT
                 !.metrics = <<SummaryMetrics(page.df)>>,
                 !.predictions =
                    <<PointPredictions(
                        FuturePrices(page.model[1],
                                     FutureDaysArray(page.df, page.last_day)))>>]

\* one execution of the script, top to bottom
Script(product, source, outcome) ==
    LET p1 == RateStage(BlankPage(product, source), outcome)
        p2 == IF p1.status = "completed" THEN LoadStage(p1, product, source) ELSE p1
        p3 == IF p2.status = "completed" THEN ChartStage(p2) ELSE p2
        p4 == IF p3.status = "completed" THEN StatsStage(p3) ELSE p3
    IN  p4

\* a cache after the execution: the value stored by a miss, overwritten by
\* the caller's in-place changes when the caller holds the stored object
CacheAfter(cache, key, l, page) ==
    IF page.alias = <<key>> THEN [cache EXCEPT ![key] = <<page.df>>]
    ELSE [cache EXCEPT ![key] = l.store]

\* ------------------------------------------------- the script's other names
\* The names the script binds after the fit are functions of df, model and
\* last_day, which no later line changes; they are unbound (here empty)
\* when the else branch of the emptiness check did not run.
future_dates ==
    IF model = <<>> THEN <<>> ELSE FutureDates(Col(df, "Date"))

future_days_array ==
    IF model = <<>> THEN <<>> ELSE FutureDaysArray(df, last_day)

future_prices ==
    IF model = <<>> THEN <<>> ELSE FuturePrices(model[1], future_days_array)

all_data ==
    IF model = <<>> THEN <<>> ELSE AllData(df, future_dates, future_prices)

\* ---------------------------------------------------------------- actions
\* a user interaction: the script runs with the two sidebar selections
Run(product, source, outcome) ==
    \E page \in {Script(product, source, outcome)},
       r \in {CachedRate(outcome)},
       l \in {LoaderCall(product, source)} :
        /\ rateCache' = IF r.raised THEN rateCache
                        ELSE <<[value |-> r.value, error |-> r.error]>>
        /\ csvCache' = IF ~r.raised /\ source = "CSV"
                       THEN CacheAfter(csvCache, products[product].csv, l, page)
                       ELSE csvCache
        /\ yahooCache' = IF ~r.raised /\ source # "CSV"
                         THEN CacheAfter(yahooCache, products[product].ticker, l, page)
                         ELSE yahooCache
        /\ status' = page.status
        /\ selected_product' = page.selected_product
        /\ data_source' = page.data_source
        /\ rateFetch' = page.rateFetch
        /\ usd_to_inr_rate' = page.usd_to_inr_rate
        /\ messages' = page.messages
        /\ loaded' = page.loaded
        /\ cacheHit' = page.cacheHit
        /\ df' = page.df
        /\ model' = page.model
        /\ last_day' = page.last_day
        /\ chart' = page.chart
        /\ metrics' = page.metrics
        /\ predictions' = page.predictions
        /\ UNCHANGED envVars

\* ttl = 3600 on the rate cache: the entry is dropped after an hour
ExpireRate ==
    /\ rateCache # <<>>
    /\ rateCache' = <<>>
    /\ UNCHANGED <<envVars, csvCache, yahooCache, pageVars>>

\* ttl = 3600 on the market-data cache
ExpireYahoo(ticker) ==
    /\ yahooCache[ticker] # <<>>
    /\ yahooCache' = [yahooCache EXCEPT ![ticker] = <<>>]
    /\ UNCHANGED <<envVars, rateCache, csvCache, pageVars>>

\* ------------------------------------------------------------ input data
\* a CSV file with a header line and the rows <<date text, price>>
CsvFrame(rows) ==
    [columns |-> <<"date", "price">>, dtype |-> "object",
     cols |-> << [i \in 1..Len(rows) |-> rows[i][1]],
                 [i \in 1..Len(rows) |-> rows[i][2]] >>]

\* the closing prices of a ticker, rows <<Timestamp, price>>
YahooFrame(ticker, rows) ==
    [columns |-> <<"Date", ticker>>, dtype |-> "datetime64",
     cols |-> << [i \in 1..Len(rows) |-> rows[i][1]],
                 [i \in 1..Len(rows) |-> rows[i][2]] >>]

\* date texts <<day, tick of day>> and prices a row can hold
DateCells == {<<0, 0>>, <<1, 0>>, <<1, 1>>, <<3, 0>>}
Prices == {100, 104}
CsvRows == DateCells \X Prices

\* the series of the scenario of the specification
ScenarioRows == << <<<<0, 0>>, 100>>, <<<<1, 0>>, 102>>, <<<<2, 0>>, 104>> >>

\* every series of at most MaxLen rows, in any order, with gaps and repeats,
\* and the scenario series
CsvSeries == UNION {[1..n -> CsvRows] : n \in 0..MaxLen} \cup {ScenarioRows}

\* the static resources a session can find
FilePool ==
    { <<>>,
      <<CsvFrame(<<>>)>>,
      <<CsvFrame(ScenarioRows)>> }

\* what the market-data service can answer for a ticker
MarketRows == { <<>>, << <<0, 104>>, <<3, 100>> >> }

\* ------------------------------------------------------- specifications
InitPage ==
    /\ status = "init"
    /\ selected_product = "Wheat"
    /\ data_source = "CSV"
    /\ rateFetch = "cached"
    /\ usd_to_inr_rate = 0
    /\ messages = <<>>
    /\ loaded = NoFrame
    /\ cacheHit = FALSE
    /\ df = NoFrame
    /\ model = <<>>
    /\ last_day = -1
    /\ chart = FALSE
    /\ metrics = <<>>
    /\ predictions = <<>>

InitCaches ==
    /\ rateCache = <<>>
    /\ csvCache = [f \in CsvNames |-> <<>>]
    /\ yahooCache = [t \in Tickers |-> <<>>]

\* a session: the products' files are all absent, all empty or all filled,
\* the market data of the tickers is all empty or all filled; empty caches
Init ==
    /\ \E f \in FilePool : files = [n \in CsvNames |-> f]
    /\ \E rows \in MarketRows : market = [t \in Tickers |-> YahooFrame(t, rows)]
    /\ InitCaches
    /\ InitPage

Next ==
    \/ \E product \in Products, source \in Sources, outcome \in RateOutcomes :
          Run(product, source, outcome)
    \/ ExpireRate
    \/ \E ticker \in Tickers : ExpireYahoo(ticker)

Spec == Init /\ [][Next]_vars

\* the projection on every bounded series: the series is the file of one
\* product, and the script runs on it under every outcome of the rate request
InitProj ==
    /\ \E s \in CsvSeries :
          files = [f \in CsvNames |->
                     IF f = products["Wheat"].csv THEN <<CsvFrame(s)>> ELSE <<>>]
    /\ market = [t \in Tickers |-> YahooFrame(t, <<>>)]
    /\ InitCaches
    /\ InitPage

\* the request answers with a rate or fails (one failure stands for all:
\* get_usd_to_inr_rate treats them alike)
ProjRates == {2, 80}
ProjOutcomes ==
    {[kind |-> "ok", rate |-> r] : r \in ProjRates}
        \cup {o \in RateOutcomes : o.kind = "network_error"}

NextProj ==
    \E outcome \in ProjOutcomes : Run("Wheat", "CSV", outcome)

SpecProj == InitProj /\ [][NextProj]_vars

\* ------------------------------------------------ vocabulary of the claims
Shown(m) == \E i \in 1..Len(messages) : messages[i] = m

\* the script ran to the point where a frame was loaded
HasLoaded == status # "init" /\ loaded # NoFrame

\* the loaded date cells as Timestamps, and the loaded prices
InputDates ==
    [i \in 1..NRows(loaded) |->
        IF loaded.dtype = "object"
        THEN loaded.cols[1][i][1] * TicksPerDay + loaded.cols[1][i][2]
        ELSE loaded.cols[1][i]]

InputPrices == loaded.cols[2]

StrictlyIncreasing(d) == \A i \in 1..(Len(d) - 1) : d[i] < d[i + 1]

\* the latest and the earliest date of the input
LastInputDate == CHOOSE d \in {InputDates[i] : i \in 1..NRows(loaded)} :
                    \A i \in 1..NRows(loaded) : InputDates[i] <= d
FirstInputDate == CHOOSE d \in {InputDates[i] : i \in 1..NRows(loaded)} :
                    \A i \in 1..NRows(loaded) : InputDates[i] >= d

\* the Predicted rows of all_data, in order
PredictedSuffix == SubSeq(all_data, NRows(loaded) + 1, Len(all_data))

\* ------------------------------------------------------------------ claims
\* C1: for every input series of length >= 2 with strictly increasing dates
\* and every rate, the Historical rows of the combined output are exactly the
\* input points, in their order and number, each price the input price times
\* the rate, and they come before every Predicted row.
C1_HistoricalPrefix ==
    (HasLoaded /\ NRows(loaded) >= 2 /\ StrictlyIncreasing(InputDates)) =>
        LET out == SubSeq(all_data, 1, Len(all_data))
            n   == NRows(loaded)
        IN  /\ status = "completed"
            /\ Cardinality({i \in 1..Len(out) : out[i].Type = "Historical"}) = n
            /\ Len(out) > n
            /\ \A i \in 1..Len(out) :
                  IF i <= n
                  THEN /\ out[i].Type = "Historical"
                       /\ out[i].Date = InputDates[i]
                       /\ out[i].Price = RatInt(InputPrices[i] * usd_to_inr_rate)
                  ELSE out[i].Type = "Predicted"

C1_Witness ==
    /\ HasLoaded /\ NRows(loaded) = 3 /\ StrictlyIncreasing(InputDates)
    /\ InputPrices = <<104, 100, 104>>
    /\ usd_to_inr_rate = 80
    /\ LET out == SubSeq(all_data, 1, 4)
       IN  /\ out[3] = [Date |-> InputDates[3], Price |-> RatInt(8320),
                        Type |-> "Historical"]
           /\ out[4].Type = "Predicted"

\* C2: whenever the projection runs, the Predicted suffix has exactly 180
\* rows, the first dated one day after the latest historical date and each
\* next one dated one day after the row before it, whatever the length of
\* the input and the gaps between its dates.
C2_PredictedSuffix ==
    (HasLoaded /\ NRows(loaded) > 0) =>
        LET suffix == PredictedSuffix
        IN  /\ Len(suffix) = 180
            /\ \A k \in 1..Len(suffix) : suffix[k].Type = "Predicted"
            /\ suffix[1].Date = LastInputDate + TicksPerDay
            /\ \A k \in 1..(Len(suffix) - 1) :
                  suffix[k + 1].Date = suffix[k].Date + TicksPerDay

C2_Witness ==
    /\ HasLoaded /\ NRows(loaded) = 2
    /\ InputDates = <<3 * TicksPerDay, 0>>
    /\ LET suffix == PredictedSuffix
       IN  /\ Len(suffix) = 180
           /\ suffix[180].Date = 3 * TicksPerDay + 180 * TicksPerDay

\* C3: for a series of fewer than 2 points no line is fitted, no projected
\* series is produced and the failure is reported.
C3_InsufficientData ==
    (HasLoaded /\ NRows(loaded) < 2) =>
        /\ model = <<>>
        /\ all_data = <<>>
        /\ predictions = <<>>
        /\ Shown("no_data")

\* the lines price = a * offset + b that are tried
Slopes == -4..4
Intercepts == 100..104

\* the input points lie on the line, and not all at offset 0
Collinear(a, b) ==
    LET days == Col(df, "Days")
    IN  /\ \A i \in 1..NRows(loaded) : InputPrices[i] = a * days[i] + b
        /\ \E i \in 1..NRows(loaded) : days[i] # 0

\* C7: when the input points lie on a line price = a * offset + b with
\* integers a and b (the offsets not all equal, so that the line is the
\* only one), the k-th predicted price, k = 0..179, is
\* rate * (a * (lastOffset + 1 + k) + b).
C7_CollinearPrediction ==
    (HasLoaded /\ NRows(loaded) > 0) =>
        \A a \in Slopes, b \in Intercepts :
            Collinear(a, b) =>
                LET fp == SubSeq(future_prices, 1, Len(future_prices))
                IN  \A k \in 0..179 :
                        RatEq(PyIndex(fp, k),
                              RatInt(usd_to_inr_rate * (a * (last_day + 1 + k) + b)))

C7_Witness ==
    /\ HasLoaded
    /\ loaded = CsvFrame(ScenarioRows)
    /\ usd_to_inr_rate = 80
    /\ Collinear(2, 100)
    /\ LET out == SubSeq(all_data, 1, 4)
       IN  /\ out[1].Price = RatInt(8000)
           /\ out[2].Price = RatInt(8160)
           /\ out[3].Price = RatInt(8320)
           /\ out[4].Date = 3 * TicksPerDay
           /\ out[4].Type = "Predicted"
           /\ RatEq(out[4].Price, RatInt(8480))

\* C9: for every predicted point, the offset at which the line is evaluated
\* is the number of whole days between the point's date and the earliest
\* date of the input: entry k of future_days_array is the offset of entry k
\* of future_dates, k = 0..179.
C9_OffsetsMatchDates ==
    (HasLoaded /\ NRows(loaded) > 0) =>
        LET fdays  == SubSeq(future_days_array, 1, Len(future_days_array))
            fdates == SubSeq(future_dates, 1, Len(future_dates))
            first  == FirstInputDate
        IN  /\ Len(fdays) = 180 /\ Len(fdates) = 180
            /\ \A k \in 0..179 :
                  PyIndex(fdays, k) = (PyIndex(fdates, k) - first) \div TicksPerDay

C9_Witness ==
    /\ HasLoaded /\ NRows(loaded) = 2
    /\ loaded.cols[1] = << <<3, 0>>, <<1, 1>> >>
    /\ last_day = 1
    /\ PyIndex(future_days_array, 0) = 2
    /\ PyIndex(future_dates, 0) = 4 * TicksPerDay

\* the price of the Predicted row dated `days` days after the latest input date
PredictedAfter(suffix, days) ==
    (CHOOSE r \in {suffix[k] : k \in 1..Len(suffix)} :
        r.Date = LastInputDate + days * TicksPerDay).Price

\* C10: the point predictions labelled 1, 3 and 6 months are the Predicted
\* rows dated 30, 90 and 180 days after the latest historical date.
C10_PointPredictionDates ==
    predictions # <<>> =>
        LET suffix == PredictedSuffix
        IN  /\ RatEq(predictions[1].one_month, PredictedAfter(suffix, 30))
            /\ RatEq(predictions[1].three_month, PredictedAfter(suffix, 90))
            /\ RatEq(predictions[1].six_month, PredictedAfter(suffix, 180))

\* C4: on any failure of the rate request get_usd_to_inr_rate returns 75
\* and a warning is shown, and the execution goes on to load the series and
\* to project it with 75 as the rate; it never ends in an exception.
C4_RateFallback ==
    (rateFetch \in FailureKinds) =>
        /\ usd_to_inr_rate = 75
        /\ Shown("rate_error")
        /\ status \in {"completed", "stopped"}
        /\ status = "stopped" => Shown("csv_not_found")
        /\ status = "completed" =>
              /\ loaded # NoFrame
              /\ NRows(loaded) > 0 =>
                    /\ chart
                    /\ predictions # <<>>
                    /\ Col(df, "Price") = [i \in 1..NRows(loaded) |-> InputPrices[i] * 75]

C4_Witness ==
    /\ rateFetch = "missing_INR"
    /\ usd_to_inr_rate = 75
    /\ Shown("rate_error")
    /\ chart
    /\ Col(df, "Price") = <<7500, 7650, 7800>>

\* C5: when the loaded series has no rows, from either source, the execution
\* shows an error, fits no model, draws no chart, shows no summary metrics
\* and no point predictions, and ends without an exception.
C5_EmptySeries ==
    (HasLoaded /\ NRows(loaded) = 0) =>
        /\ Shown("no_data")
        /\ model = <<>>
        /\ all_data = <<>>
        /\ ~chart
        /\ metrics = <<>>
        /\ predictions = <<>>
        /\ status = "completed"

C5_Witness ==
    /\ HasLoaded /\ NRows(loaded) = 0
    /\ data_source = "Yahoo Finance"
    /\ Shown("yahoo_success") /\ Shown("no_data")
    /\ status = "completed"

\* the execution left nothing behind: no frame, no fit, no chart, no numbers
NothingProduced ==
    /\ loaded = NoFrame /\ df = NoFrame
    /\ model = <<>> /\ all_data = <<>>
    /\ ~chart /\ metrics = <<>> /\ predictions = <<>>

\* the execution went through every stage
RanInFull ==
    /\ status = "completed"
    /\ chart /\ Length(all_data) = NRows(loaded) + 180
    /\ metrics # <<>> /\ predictions # <<>>

\* the last execution asked for the file of a product that has none
AbsentFileSelected ==
    /\ status # "init"
    /\ data_source = "CSV"
    /\ files[products[selected_product].csv] = <<>>

\* C6: when the CSV source is selected and the product's file is absent, the
\* execution shows the not-found error and halts: nothing is converted,
\* fitted, drawn or displayed after it and no exception escapes; the next
\* execution (with the remote source and data to be had) runs in full.
C6_AbsentFileHalts ==
    [][/\ AbsentFileSelected' =>
            (status = "stopped" /\ Shown("csv_not_found") /\ NothingProduced)'
       /\ (/\ status = "stopped"
           /\ data_source' = "Yahoo Finance"
           /\ ~Empty(market[products[selected_product'].ticker])) => RanInFull'
      ]_vars

C6_Witness ==
    /\ status = "stopped"
    /\ data_source = "CSV"
    /\ files[products[selected_product].csv] = <<>>
    /\ messages = <<"csv_not_found">>
    /\ NothingProduced

\* a step leaves every value that a cache holds before and after it as it was
CacheEntriesKept ==
    /\ \A n \in CsvNames :
          (csvCache[n] # <<>> /\ csvCache'[n] # <<>>) => csvCache'[n] = csvCache[n]
    /\ \A t \in Tickers :
          (yahooCache[t] # <<>> /\ yahooCache'[t] # <<>>) => yahooCache'[t] = yahooCache[t]

\* a step ends with the page of the execution before it
SameAsBefore ==
    /\ status' = "completed"
    /\ df' = df
    /\ all_data' = all_data
    /\ metrics' = metrics
    /\ predictions' = predictions

\* C8: an execution with the product, the source and the rate of the
\* execution before it produces the same projected series, and no execution
\* alters a value a cache holds: the rate is applied once per execution and
\* does not compound over executions served from the cache.
C8_RerunsAgree ==
    [][/\ CacheEntriesKept
       /\ (/\ status = "completed"
           /\ selected_product' = selected_product
           /\ data_source' = data_source
           /\ usd_to_inr_rate' = usd_to_inr_rate) => SameAsBefore
      ]_vars

C8_Witness ==
    /\ status = "completed"
    /\ cacheHit
    /\ data_source = "CSV"
    /\ usd_to_inr_rate = 80
    /\ csvCache[products[selected_product].csv] = <<CsvFrame(ScenarioRows)>>
    /\ Col(df, "Price") = <<8000, 8160, 8320>>
    /\ Len(all_data) = 183

====
